---- MODULE Spec2Model ----
(***************************************************************************)
(* goyacc: the parser generator (main1) and the parser it emits (yyParse). *)
(*                                                                         *)
(* The generator part turns the grammar processor's output p (symbols,     *)
(* rules, per-state action table, error examples) into the emitted tables: *)
(* yyXLAT, yyTabOfs, yyParseTab, yyReductions, yyXErrors.  The runtime     *)
(* part is the emitted yyParse automaton running over those tables.        *)
(*                                                                         *)
(* Symbol names are sequences of byte codes, so that strings.ToLower and   *)
(* the byte-wise string comparison of Go can be computed.  Go ints are 64  *)
(* bits wide; a value of the generator's arithmetic is a pair <<q, r>>     *)
(* standing for q * 2^16 + r with 0 <= r < 2^16, so that stored cell       *)
(* values of 2^32 and more can be written and truncated as the code does.  *)
(***************************************************************************)
EXTENDS Integers, Sequences, FiniteSets, TLC

VARIABLES
    p,          \* generator: the grammar processor's output being translated
    su,         \* generator: the sorted symsUsed slice (names), <<>> before the sort
    out,        \* generator: what main1 has emitted so far
    input,      \* runtime: per parse, the token ids the caller's lexer will return
    parse       \* runtime: per parse, the locals of one yyParse invocation

vars == <<p, su, out, input, parse>>

-----------------------------------------------------------------------------
(* Bounds of the model *)

\* longest token sequence a lexer returns before it reports end of input
MaxLen == 4
\* the record of lexer and error-sink calls keeps at most this many calls
MaxCalls == 8
\* most action cells in a generator input table
MaxCells == 2
\* number of states (rows) of a generator input table
GenStates == 2
\* most components of a rule handed to the action stitcher
MaxComps == 3
\* most parts of a rule's action
MaxParts == 2

-----------------------------------------------------------------------------
(* 64-bit integer arithmetic on <<q, r>> pairs: value = q * Base + r *)

Base == 2^16

I64(n) == <<n \div Base, n % Base>>

ToInt(a) == a[1] * Base + a[2]

Add64(a, b) ==
    LET r == a[2] + b[2]
    IN  <<a[1] + b[1] + (r \div Base), r % Base>>

Neg64(a) == IF a[2] = 0 THEN <<-a[1], 0>> ELSE <<-a[1] - 1, Base - a[2]>>

Sub64(a, b) == Add64(a, Neg64(b))

Lt64(a, b) == a[1] < b[1] \/ (a[1] = b[1] /\ a[2] < b[2])

\* mathutil.Min, mathutil.Max
Min64(a, b) == IF Lt64(b, a) THEN b ELSE a
Max64(a, b) == IF Lt64(a, b) THEN b ELSE a

RECURSIVE BitLenNat(_)
BitLenNat(n) == IF n = 0 THEN 0 ELSE 1 + BitLenNat(n \div 2)

\* mathutil.BitLen of a non-negative value
BitLen64(a) == IF a[1] > 0 THEN 16 + BitLenNat(a[1]) ELSE BitLenNat(a[2])

\* uint32(v): the low 32 bits of a non-negative value
Uint32(a) == <<a[1] % Base, a[2]>>

\* v >> 32 of a non-negative value, as a plain number
Shr32(a) == a[1] \div Base

RECURSIVE BitOr(_, _)
BitOr(a, b) ==
    IF a = 0 THEN b
    ELSE IF b = 0 THEN a
    ELSE (IF a % 2 = 1 \/ b % 2 = 1 THEN 1 ELSE 0) + 2 * BitOr(a \div 2, b \div 2)

Zero64 == <<0, 0>>

-----------------------------------------------------------------------------
(* Names: Go strings as sequences of bytes *)

ToLowerByte(c) == IF c >= 65 /\ c <= 90 THEN c + 32 ELSE c

\* strings.ToLower
ToLower(s) == [i \in 1..Len(s) |-> ToLowerByte(s[i])]

RECURSIVE StrLess(_, _)
\* Go's s < t on strings: byte-wise lexicographic
StrLess(s, t) ==
    IF t = <<>> THEN FALSE
    ELSE IF s = <<>> THEN TRUE
    ELSE IF s[1] # t[1] THEN s[1] < t[1]
    ELSE StrLess(Tail(s), Tail(t))

nmEmpty == <<>>
nmEpsilon == <<206, 181>>
nmAccept == <<36, 97, 99, 99, 101, 112, 116>>
nmHash == <<35>>
nmEnd == <<36, 101, 110, 100>>
nmError == <<101, 114, 114, 111, 114>>

\* a one-character token name such as 'a'
Quoted(c) == <<39, c, 39>>

-----------------------------------------------------------------------------
(* The grammar processor's output (y.Parser): the generator's input        *)
(*                                                                         *)
(*   g.Syms     set of symbols [Name, Value]; a symbol's identity is its   *)
(*              name (p.Syms is keyed by name)                             *)
(*   g.Table    sequence of states, each a set of actions                  *)
(*              [Sym, kind, arg]; kind is "s" shift, "g" goto,             *)
(*              "r" reduce, "a" accept; state si is g.Table[si + 1]        *)
(*   g.Rules    sequence of rules [Sym, Components, errok]; rule r is      *)
(*              g.Rules[r + 1]; errok: the rule's action calls yyerrok()   *)
(*   g.XErrors  set of error examples [Stack, Lookahead, Msg]              *)
(***************************************************************************)

\* xerr.Lookahead == nil
NoLookahead == <<0>>

Sym(g, nm) == CHOOSE s \in g.Syms : s.Name = nm

NumStates(g) == Len(g.Table)

\* every (state, action) pair of p.Table, as visited by the two nested loops
Cells(g) == UNION { { [state |-> si, act |-> a] : a \in g.Table[si + 1] } : si \in 0..(NumStates(g) - 1) }

\* act.Kind()
Kind(act) == <<act.kind, act.arg>>

\* rule.Parent != nil: the rule is synthesized from a mid-rule action
IsSynth(rule) == "Parent" \in DOMAIN rule

-----------------------------------------------------------------------------
(* Symbol Translator: usage counts and the sorted symbol list *)

\* variant: keeps the "#" marker as a translated symbol
IsReservedNoHash(nm) == nm = nmEmpty \/ nm = nmEpsilon \/ nm = nmAccept

\* the names main1 skips when it fills msu
IsReserved(nm) == nm = nmEmpty \/ nm = nmEpsilon \/ nm = nmAccept \/ nm = nmHash

\* the keys of msu: the symbols kept from p.Syms, and every symbol an action names
MsuKeys(g) == { s.Name : s \in { t \in g.Syms : ~IsReserved(t.Name) } } \cup { c.act.Sym : c \in Cells(g) }

\* msu[act.Sym]++ runs for every action, before its kind is looked at
Counted(c) == TRUE

\* msu after the scan of p.Table
Msu(g) == [nm \in MsuKeys(g) |-> Cardinality({ c \in Cells(g) : c.act.Sym = nm /\ Counted(c) })]

\* variant: sorts by ascending usage count
LessAscending(used, a, b) ==
    IF used[a] < used[b] THEN TRUE
    ELSE IF used[a] > used[b] THEN FALSE
    ELSE StrLess(ToLower(a), ToLower(b))

\* symsUsed.Less
Less(used, a, b) ==
    IF used[a] > used[b] THEN TRUE
    ELSE IF used[a] < used[b] THEN FALSE
    ELSE StrLess(ToLower(a), ToLower(b))

RECURSIVE Sorts(_, _)
\* sort.Sort(su) over a slice collected in map-iteration order: every
\* arrangement of S in which no element is Less than an earlier one
Sorts(used, S) ==
    IF S = {} THEN { <<>> }
    ELSE UNION { { <<m>> \o t : t \in Sorts(used, S \ {m}) } :
                 m \in { x \in S : \A y \in S : ~Less(used, y, x) } }

\* the results sort.Sort(su) can leave for grammar g
SortedSu(g) == Sorts(Msu(g), MsuKeys(g))

-----------------------------------------------------------------------------
(* Table Encoder *)

\* the value the minArg/maxArg scan folds in for a non-accept action
ScanArg(act) == IF Kind(act)[1] = "r" THEN Neg64(Kind(act)[2]) ELSE Kind(act)[2]

\* the values the scan folds into minArg and maxArg: 0, where both start,
\* and every non-accept action's value
ScanArgs(g) == { Zero64 } \cup { ScanArg(c.act) : c \in { d \in Cells(g) : d.act.kind # "a" } }

\* minArg, maxArg after the scan
MinArg(g) == CHOOSE m \in ScanArgs(g) : \A v \in ScanArgs(g) : Min64(m, v) = m
MaxArg(g) == CHOOSE m \in ScanArgs(g) : \A v \in ScanArgs(g) : Max64(m, v) = m

\* minArg--, emitted as yyTabOfs
TabOfs(g) == Sub64(MinArg(g), I64(1))

\* the switch over n == BitLen(maxArg - minArg + 1)
TBitsOf(n) == IF n < 8 THEN 8 ELSE IF n < 16 THEN 16 ELSE 32

TBits(g) == TBitsOf(BitLen64(Add64(Sub64(MaxArg(g), TabOfs(g)), I64(1))))

\* xlat[v.sym.Value] = i, for i, v := range su: a later entry overwrites
Xlat(g, s) ==
    [v \in { Sym(g, s[i]).Value : i \in 1..Len(s) } |->
        (CHOOSE i \in 1..Len(s) :
            /\ Sym(g, s[i]).Value = v
            /\ \A j \in 1..Len(s) : Sym(g, s[j]).Value = v => j <= i) - 1]

\* reading a Go map[int]int: a missing key reads as 0
MapGet(m, k) == IF k \in DOMAIN m THEN m[k] ELSE 0

\* endSym, errSym: the index of the symbol of that name, 0 when there is none
IndexOfName(s, nm) == IF \E i \in 1..Len(s) : s[i] = nm THEN (CHOOSE i \in 1..Len(s) : s[i] = nm) - 1 ELSE 0

\* the value an action is stored for: accept 0, reduce -rule, else the target
EncArg(act) ==
    IF Kind(act)[1] = "a" THEN Zero64
    ELSE IF Kind(act)[1] = "r" THEN Neg64(Kind(act)[2])
    ELSE Kind(act)[2]

\* arg - minArg
Stored(g, act) == Sub64(EncArg(act), TabOfs(g))

\* uint64(xsym)<<32 | uint64(arg-minArg), read back as
\* <<int(uint32(v >> 32)), int(uint32(v))>>
Pack(g, xl, act) ==
    <<BitOr(MapGet(xl, Sym(g, act.Sym).Value), Shr32(Stored(g, act))), Uint32(Stored(g, act))>>

\* tabRow of state si, as a set: tabRow.Sort() orders it by the packed value
TabRow(g, xl, si) == { Pack(g, xl, a) : a \in g.Table[si + 1] }

\* the emitted row: a Go slice literal {xsym: arg, arg, xsym: arg, ...} has
\* max index + 1 elements, the listed ones set and the others 0.  The row is
\* a sequence: element i of the slice is row[i + 1].
EmitRow(items) ==
    IF items = {} THEN <<>>
    ELSE LET max == CHOOSE m \in { it[1] : it \in items } : \A it \in items : it[1] <= m
         IN  [i \in 1..(max + 1) |->
                IF \E it \in items : it[1] = i - 1
                THEN (CHOOSE it \in items : it[1] = i - 1)[2]
                ELSE Zero64]

\* yyParseTab
ParseTab(g, xl) == [i \in 1..NumStates(g) |-> EmitRow(TabRow(g, xl, i - 1))]

\* variant: a synthesized rule is entered with its parent's MaxParentDlr
ReductionsParentDlr(g, xl) ==
    [i \in 1..Len(g.Rules) |->
        [xsym |-> MapGet(xl, Sym(g, g.Rules[i].Sym).Value),
         components |-> IF IsSynth(g.Rules[i]) THEN g.Rules[i].MaxParentDlr
                        ELSE Len(g.Rules[i].Components)]]

\* yyReductions: r -> {xsym, components}
Reductions(g, xl) ==
    [i \in 1..Len(g.Rules) |->
        [xsym |-> MapGet(xl, Sym(g, g.Rules[i].Sym).Value),
         components |-> Len(g.Rules[i].Components)]]

\* yyXErrors: the emitted entries {state, xsym}: msg
XErrors(g, xl) ==
    { [state |-> x.Stack[Len(x.Stack)],
       xsym |-> IF x.Lookahead # NoLookahead THEN MapGet(xl, Sym(g, x.Lookahead).Value) ELSE -1,
       msg |-> x.Msg] : x \in g.XErrors }

\* everything main1 emits for grammar g once su is sorted as s
Emit(g, s) ==
    LET xl == Xlat(g, s)
    IN  [emitted |-> TRUE,
         xlat |-> xl,
         endSym |-> IndexOfName(s, nmEnd),
         errSym |-> IndexOfName(s, nmError),
         tabOfs |-> TabOfs(g),
         tbits |-> TBits(g),
         parseTab |-> ParseTab(g, xl),
         reductions |-> Reductions(g, xl),
         xerrors |-> XErrors(g, xl),
         errok |-> [i \in 1..Len(g.Rules) |-> g.Rules[i].errok]]

\* before main1 has written anything
NoOut ==
    [emitted |-> FALSE, xlat |-> <<>>, endSym |-> 0, errSym |-> 0, tabOfs |-> Zero64,
     tbits |-> 0, parseTab |-> <<>>, reductions |-> <<>>, xerrors |-> {}, errok |-> <<>>]

-----------------------------------------------------------------------------
(* The emitted runtime: pure steps of one yyParse invocation               *)
(*                                                                         *)
(* t is the emitted tables, inp the token ids the caller's lexer returns,  *)
(* c the locals of the invocation:                                         *)
(*   stack      the yys (state) of every frame, bottom first               *)
(*   lookahead  translated id of the pending token, -1 when there is none  *)
(*   errState   the error-tolerance counter                                *)
(*   pos        how many tokens the lexer has handed out                   *)
(*   pc         "next" at the next: label, "return" after a return,        *)
(*              "panic" after a run-time panic; ret is the returned value  *)
(*   calls      the calls made to yylex.Lex and yylex.Error so far (the    *)
(*              first MaxCalls of them)                                    *)
(*   op, msg    what the last pass through next: did, and the message it   *)
(*              handed to yylex.Error ("" when it did not call it)         *)
(*   detected, shifts, errok   history: an error was detected; token       *)
(*              shifts (at most 3 counted) and yyerrok() calls since the   *)
(*              last detected error                                        *)
(***************************************************************************)

NoMsg == ""

InitC ==
    [stack |-> <<0>>, lookahead |-> -1, errState |-> 0, pos |-> 0, pc |-> "next", ret |-> -1,
     calls |-> <<>>, op |-> "start", msg |-> NoMsg,
     detected |-> FALSE, shifts |-> 0, errok |-> FALSE]

Record(calls, call) == IF Len(calls) < MaxCalls THEN Append(calls, call) ELSE calls

\* yylex1: n <= 0 becomes -1, then n = yyXLAT[n]
yylex1(t, n) == MapGet(t.xlat, IF n <= 0 THEN -1 ELSE n)

\* lex.Lex(lval): the next token id, 0 forever once the input is used up
LexToken(inp, pos) == IF pos < Len(inp) THEN inp[pos + 1] ELSE 0

\* row[lookahead] of the normal step: 0 past the end of the row, and the
\* offset is added only to a non-zero cell
DecodeCell(row, la, ofs) ==
    IF la < Len(row)
    THEN IF row[la + 1] # Zero64 THEN Add64(row[la + 1], ofs) ELSE Zero64
    ELSE Zero64

\* the unwind's arg: int(row[yyError]) + yyTabOfs when yyError < len(row),
\* with no test of the cell for 0; 0 stands for "no hit"
ErrorCell(row, yyError, ofs) ==
    IF yyError < Len(row) THEN ToInt(Add64(row[yyError + 1], ofs)) ELSE 0

ValidState(t, state) == state >= 0 /\ state < Len(t.parseTab)

TopState(c) == c.stack[Len(c.stack)]

\* arg of the normal step
Arg(t, c) == ToInt(DecodeCell(t.parseTab[TopState(c) + 1], c.lookahead, t.tabOfs))

\* variant: the wildcard entry is looked up first
XErrorMsgWildcardFirst(t, state, la) ==
    IF \E e \in t.xerrors : e.state = state /\ e.xsym = -1
    THEN (CHOOSE e \in t.xerrors : e.state = state /\ e.xsym = -1).msg
    ELSE IF \E e \in t.xerrors : e.state = state /\ e.xsym = la
    THEN (CHOOSE e \in t.xerrors : e.state = state /\ e.xsym = la).msg
    ELSE "syntax error"

\* msg for yylex.Error: yyXErrors[{state, lookahead}], then
\* yyXErrors[{state, -1}], then "syntax error"
XErrorMsg(t, state, la) ==
    IF \E e \in t.xerrors : e.state = state /\ e.xsym = la
    THEN (CHOOSE e \in t.xerrors : e.state = state /\ e.xsym = la).msg
    ELSE IF \E e \in t.xerrors : e.state = state /\ e.xsym = -1
    THEN (CHOOSE e \in t.xerrors : e.state = state /\ e.xsym = -1).msg
    ELSE "syntax error"

\* variant: every detected error below counter 3 is reported
SinkCalledAlways(errState) == TRUE

\* case 0 calls yylex.Error and falls through; case 1, 2 does not call it
SinkCalled(errState) == errState = 0

\* if lookahead < 0 { lookahead = yylex1(yylex, &lval) }
LexC(t, inp, c) ==
    LET n == LexToken(inp, c.pos)
    IN  [c EXCEPT !.lookahead = yylex1(t, n),
                  !.pos = IF c.pos < Len(inp) THEN c.pos + 1 ELSE c.pos,
                  !.calls = Record(c.calls, [call |-> "Lex", n |-> n, xsym |-> yylex1(t, n), msg |-> NoMsg]),
                  !.op = "lex", !.msg = NoMsg]

\* row := yyParseTab[state] with state out of range
PanicC(c) == [c EXCEPT !.pc = "panic", !.op = "panic", !.msg = NoMsg]

\* case arg > 0
ShiftC(t, c) ==
    [c EXCEPT !.stack = Append(c.stack, Arg(t, c)),
              !.errState = IF c.errState > 0 THEN c.errState - 1 ELSE c.errState,
              !.lookahead = -1,
              !.op = "shift", !.msg = NoMsg,
              !.shifts = IF c.shifts < 3 THEN c.shifts + 1 ELSE c.shifts]

\* yyReductions[r]: a Go map, a missing rule reads as {0, 0}
ReductionOf(t, r) ==
    IF r + 1 \in DOMAIN t.reductions THEN t.reductions[r + 1] ELSE [xsym |-> 0, components |-> 0]

\* variant: the goto cell is used as stored, without adding yyTabOfs
ReduceCNoOffset(t, c) ==
    LET r == -Arg(t, c)
        x == ReductionOf(t, r).xsym
        n == ReductionOf(t, r).components
        sp == Len(c.stack) - 1
    IN  IF sp - n < 0 THEN PanicC(c)
        ELSE LET exposed == c.stack[sp - n + 1]
             IN  IF ~ValidState(t, exposed) THEN PanicC(c)
                 ELSE IF x >= Len(t.parseTab[exposed + 1]) THEN PanicC(c)
                 ELSE LET yys == ToInt(t.parseTab[exposed + 1][x + 1])
                          callsErrok == r + 1 \in DOMAIN t.errok /\ t.errok[r + 1]
                      IN  [c EXCEPT !.stack = Append(SubSeq(c.stack, 1, sp - n + 1), yys),
                                    !.errState = IF callsErrok THEN 0 ELSE c.errState,
                                    !.op = "reduce", !.msg = NoMsg,
                                    !.errok = c.errok \/ callsErrok]

\* case arg < 0, then the code after the switch: the goto lookup, the rule's
\* action, and stack = append(stack[:sp-n+1], rval)
ReduceC(t, c) ==
    LET r == -Arg(t, c)
        x == ReductionOf(t, r).xsym
        n == ReductionOf(t, r).components
        sp == Len(c.stack) - 1
    IN  IF sp - n < 0 THEN PanicC(c)
        ELSE LET exposed == c.stack[sp - n + 1]
             IN  IF ~ValidState(t, exposed) THEN PanicC(c)
                 ELSE IF x >= Len(t.parseTab[exposed + 1]) THEN PanicC(c)
                 ELSE LET yys == ToInt(Add64(t.parseTab[exposed + 1][x + 1], t.tabOfs))
                          callsErrok == r + 1 \in DOMAIN t.errok /\ t.errok[r + 1]
                      IN  [c EXCEPT !.stack = Append(SubSeq(c.stack, 1, sp - n + 1), yys),
                                    !.errState = IF callsErrok THEN 0 ELSE c.errState,
                                    !.op = "reduce", !.msg = NoMsg,
                                    !.errok = c.errok \/ callsErrok]

\* case state == 1
AcceptC(c) == [c EXCEPT !.pc = "return", !.ret = 0, !.op = "accept", !.msg = NoMsg]

RECURSIVE Unwind(_, _)
\* for sp != 0 { ... }: the stack the loop leaves, and whether it left by
\* the error shift (goto next) or ran out (return 1)
Unwind(t, stack) ==
    LET sp == Len(stack) - 1
        state == stack[Len(stack)]
    IN  IF sp = 0 THEN [hit |-> FALSE, panic |-> FALSE, stack |-> stack]
        ELSE IF ~ValidState(t, state) THEN [hit |-> FALSE, panic |-> TRUE, stack |-> stack]
        ELSE LET arg == ErrorCell(t.parseTab[state + 1], t.errSym, t.tabOfs)
             IN  IF arg # 0
                 THEN [hit |-> TRUE, panic |-> FALSE, stack |-> Append(stack, arg)]
                 ELSE Unwind(t, SubSeq(stack, 1, sp))

\* default: with errState 0, 1 or 2
ErrorC(t, c) ==
    LET state == TopState(c)
        said == IF SinkCalled(c.errState) THEN XErrorMsg(t, state, c.lookahead) ELSE NoMsg
        u == Unwind(t, c.stack)
    IN  [c EXCEPT !.calls = IF SinkCalled(c.errState)
                            THEN Record(c.calls, [call |-> "Error", n |-> state, xsym |-> c.lookahead, msg |-> said])
                            ELSE c.calls,
                  !.errState = 3,
                  !.stack = u.stack,
                  !.pc = IF u.panic THEN "panic" ELSE IF u.hit THEN "next" ELSE "return",
                  !.ret = IF ~u.panic /\ ~u.hit THEN 1 ELSE c.ret,
                  !.op = "error", !.msg = said,
                  !.detected = TRUE, !.shifts = 0, !.errok = FALSE]

\* variant: a discarded token counts like a shifted one
DiscardCCounts(t, c) ==
    IF c.lookahead = t.endSym
    THEN [c EXCEPT !.pc = "return", !.ret = 1, !.op = "discard", !.msg = NoMsg,
                   !.detected = TRUE, !.shifts = 0, !.errok = FALSE]
    ELSE [c EXCEPT !.lookahead = -1, !.errState = c.errState - 1, !.op = "discard", !.msg = NoMsg,
                   !.detected = TRUE, !.shifts = 0, !.errok = FALSE]

\* default: with errState 3
DiscardC(t, c) ==
    IF c.lookahead = t.endSym
    THEN [c EXCEPT !.pc = "return", !.ret = 1, !.op = "discard", !.msg = NoMsg,
                   !.detected = TRUE, !.shifts = 0, !.errok = FALSE]
    ELSE [c EXCEPT !.lookahead = -1, !.op = "discard", !.msg = NoMsg,
                   !.detected = TRUE, !.shifts = 0, !.errok = FALSE]

\* which branch the next pass through next: takes
Op(t, c) ==
    IF c.pc # "next" THEN "halt"
    ELSE IF c.lookahead < 0 THEN "lex"
    ELSE IF ~ValidState(t, TopState(c)) THEN "panic"
    ELSE IF Arg(t, c) > 0 THEN "shift"
    ELSE IF Arg(t, c) < 0 THEN "reduce"
    ELSE IF TopState(c) = 1 THEN "accept"
    ELSE IF c.errState = 0 THEN "error0"
    ELSE IF c.errState \in {1, 2} THEN "error12"
    ELSE "error3"

\* one pass of a parse running alone
StepC(t, inp, c) ==
    CASE Op(t, c) = "lex" -> LexC(t, inp, c)
      [] Op(t, c) = "panic" -> PanicC(c)
      [] Op(t, c) = "shift" -> ShiftC(t, c)
      [] Op(t, c) = "reduce" -> ReduceC(t, c)
      [] Op(t, c) = "accept" -> AcceptC(c)
      [] Op(t, c) \in {"error0", "error12"} -> ErrorC(t, c)
      [] Op(t, c) = "error3" -> DiscardC(t, c)
      [] OTHER -> c

RECURSIVE SoloRun(_, _, _, _)
\* the configurations a parse of inp passes through when it runs alone
SoloRun(t, inp, c, seen) ==
    IF c \in seen THEN seen
    ELSE IF Op(t, c) = "halt" THEN seen \cup {c}
    ELSE SoloRun(t, inp, StepC(t, inp, c), seen \cup {c})

\* variant: errState is one variable shared by all invocations
CommitSharedErrState(ps, pid, c) ==
    [q \in DOMAIN ps |-> IF q = pid THEN c ELSE [ps[q] EXCEPT !.errState = c.errState]]

\* stack, lookahead, errState, lval, rval are locals of the invocation
Commit(ps, pid, c) == [ps EXCEPT ![pid] = c]

-----------------------------------------------------------------------------
(* The grammar the modelled parser is generated from                       *)
(*                                                                         *)
(*   0  $accept: S $end                                                    *)
(*   1  S: 'a' A 'x'                                                       *)
(*   2  S: 'b' A 'y'                                                       *)
(*   3  A: error           { yyerrok() }                                   *)
(*   4  A: 'c'                                                             *)
(*   5  S: 'x' S 'y'                                                       *)
(*   6  S: 'c' error 'x' 'x' 'x'                                           *)
(*                                                                         *)
(* with its LALR(1) table; state 1 is the accept state.                    *)
(***************************************************************************)

nmS == <<83>>
nmA == <<65>>
tkA == Quoted(97)
tkB == Quoted(98)
tkC == Quoted(99)
tkX == Quoted(120)
tkY == Quoted(121)

Sh(nm, target) == [Sym |-> nm, kind |-> "s", arg |-> I64(target)]
Go(nm, target) == [Sym |-> nm, kind |-> "g", arg |-> I64(target)]
Rd(nm, rule) == [Sym |-> nm, kind |-> "r", arg |-> I64(rule)]
Ac(nm) == [Sym |-> nm, kind |-> "a", arg |-> Zero64]

ReservedSyms ==
    { [Name |-> nmEmpty, Value |-> 0], [Name |-> nmEpsilon, Value |-> -2],
      [Name |-> nmAccept, Value |-> -3], [Name |-> nmHash, Value |-> -4] }

G ==
    [Syms |-> ReservedSyms \cup
        { [Name |-> nmEnd, Value |-> -1], [Name |-> nmError, Value |-> 57345],
          [Name |-> nmS, Value |-> 57346], [Name |-> nmA, Value |-> 57347],
          [Name |-> tkA, Value |-> 97], [Name |-> tkB, Value |-> 98], [Name |-> tkC, Value |-> 99],
          [Name |-> tkX, Value |-> 120], [Name |-> tkY, Value |-> 121] },
     Table |-> <<
        (* 0 *)  { Sh(tkA, 2), Sh(tkB, 3), Sh(tkX, 4), Sh(tkC, 5), Go(nmS, 1) },
        (* 1 *)  { Ac(nmEnd) },
        (* 2 *)  { Sh(nmError, 6), Sh(tkC, 7), Go(nmA, 8) },
        (* 3 *)  { Sh(nmError, 6), Sh(tkC, 7), Go(nmA, 9) },
        (* 4 *)  { Sh(tkA, 2), Sh(tkB, 3), Sh(tkX, 4), Sh(tkC, 5), Go(nmS, 10) },
        (* 5 *)  { Sh(nmError, 11) },
        (* 6 *)  { Rd(tkX, 3), Rd(tkY, 3) },
        (* 7 *)  { Rd(tkX, 4), Rd(tkY, 4) },
        (* 8 *)  { Sh(tkX, 12) },
        (* 9 *)  { Sh(tkY, 13) },
        (* 10 *) { Sh(tkY, 14) },
        (* 11 *) { Sh(tkX, 15) },
        (* 12 *) { Rd(nmEnd, 1), Rd(tkY, 1) },
        (* 13 *) { Rd(nmEnd, 2), Rd(tkY, 2) },
        (* 14 *) { Rd(nmEnd, 5), Rd(tkY, 5) },
        (* 15 *) { Sh(tkX, 16) },
        (* 16 *) { Sh(tkX, 17) },
        (* 17 *) { Rd(nmEnd, 6), Rd(tkY, 6) } >>,
     Rules |-> <<
        [Sym |-> nmAccept, Components |-> <<nmS, nmEnd>>, errok |-> FALSE],
        [Sym |-> nmS, Components |-> <<tkA, nmA, tkX>>, errok |-> FALSE],
        [Sym |-> nmS, Components |-> <<tkB, nmA, tkY>>, errok |-> FALSE],
        [Sym |-> nmA, Components |-> <<nmError>>, errok |-> TRUE],
        [Sym |-> nmA, Components |-> <<tkC>>, errok |-> FALSE],
        [Sym |-> nmS, Components |-> <<tkX, nmS, tkY>>, errok |-> FALSE],
        [Sym |-> nmS, Components |-> <<tkC, nmError, tkX, tkX, tkX>>, errok |-> FALSE] >>,
     XErrors |->
        { [Stack |-> <<0, 2>>, Lookahead |-> tkY, Msg |-> "unexpected y after a"],
          [Stack |-> <<0, 2>>, Lookahead |-> NoLookahead, Msg |-> "expected c"],
          [Stack |-> <<0, 4>>, Lookahead |-> NoLookahead, Msg |-> "expected S"],
          [Stack |-> <<0, 2, 8>>, Lookahead |-> tkY, Msg |-> "expected x"] }]

\* the one order sort.Sort leaves for G (no two of its names tie)
yySu == CHOOSE s \in SortedSu(G) : TRUE

\* the tables of the parser generated from G
yyTables == Emit(G, yySu)

(* A second grammar, whose initial state has an error shift:               *)
(*   0  $accept: S $end                                                    *)
(*   1  S: error 'x'                                                       *)
(*   2  S: 'a'                                                             *)
GTop ==
    [Syms |-> ReservedSyms \cup
        { [Name |-> nmEnd, Value |-> -1], [Name |-> nmError, Value |-> 57345],
          [Name |-> nmS, Value |-> 57346],
          [Name |-> tkA, Value |-> 97], [Name |-> tkX, Value |-> 120] },
     Table |-> <<
        (* 0 *)  { Sh(nmError, 2), Sh(tkA, 3), Go(nmS, 1) },
        (* 1 *)  { Ac(nmEnd) },
        (* 2 *)  { Sh(tkX, 4) },
        (* 3 *)  { Rd(nmEnd, 2) },
        (* 4 *)  { Rd(nmEnd, 1) } >>,
     Rules |-> <<
        [Sym |-> nmAccept, Components |-> <<nmS, nmEnd>>, errok |-> FALSE],
        [Sym |-> nmS, Components |-> <<nmError, tkX>>, errok |-> FALSE],
        [Sym |-> nmS, Components |-> <<tkA>>, errok |-> FALSE] >>,
     XErrors |-> {}]

yySuTop == CHOOSE s \in SortedSu(GTop) : TRUE

yyTablesTop == Emit(GTop, yySuTop)

(* A third grammar, with a mid-rule action:  S: 'a' { ... $1 ... } 'x'.    *)
(* The grammar processor turns the action into the synthesized rule 2,     *)
(* whose Parent is rule 1 and whose MaxParentDlr is 1:                     *)
(*   0  $accept: S $end                                                    *)
(*   1  S: 'a' $@1 'x'                                                     *)
(*   2  $@1: (empty)                                                       *)
nmMid == <<36, 64, 49>>

GMid ==
    [Syms |-> ReservedSyms \cup
        { [Name |-> nmEnd, Value |-> -1], [Name |-> nmError, Value |-> 57345],
          [Name |-> nmS, Value |-> 57346], [Name |-> nmMid, Value |-> 57347],
          [Name |-> tkA, Value |-> 97], [Name |-> tkX, Value |-> 120] },
     Table |-> <<
        (* 0 *)  { Sh(tkA, 2), Go(nmS, 1) },
        (* 1 *)  { Ac(nmEnd) },
        (* 2 *)  { Rd(tkX, 2), Go(nmMid, 3) },
        (* 3 *)  { Sh(tkX, 4) },
        (* 4 *)  { Rd(nmEnd, 1) } >>,
     Rules |-> <<
        [Sym |-> nmAccept, Components |-> <<nmS, nmEnd>>, errok |-> FALSE],
        [Sym |-> nmS, Components |-> <<tkA, nmMid, tkX>>, errok |-> FALSE],
        [Sym |-> nmMid, Components |-> <<>>, errok |-> FALSE, Parent |-> 1, MaxParentDlr |-> 1] >>,
     XErrors |-> {}]

yySuMid == CHOOSE s \in SortedSu(GMid) : TRUE

yyTablesMid == Emit(GMid, yySuMid)

\* token ids a lexer may return: the five tokens of G, 0 for end of input,
\* and 999, which no symbol has
Tokens == {97, 98, 99, 120, 121, 0, 999}

TokenSeqs(n) == UNION { [1..k -> Tokens] : k \in 0..n }

\* inputs of the two concurrent parses
ParInputs ==
    { <<97, 99, 120>>, <<97, 121>>, <<120, 121>>, <<99, 120, 97>>, <<98, 0>>, <<999>> }

-----------------------------------------------------------------------------
(* Generator inputs: small tables over four symbols *)

\* the symbols the generated tables name in their cells; "B" is a symbol of
\* the grammar that no cell names
GenNames == << nmEnd, nmA, <<97>> >>

GenSyms ==
    ReservedSyms \cup
        { [Name |-> nmEnd, Value |-> -1], [Name |-> nmA, Value |-> 57347],
          [Name |-> <<97>>, Value |-> 57348], [Name |-> <<66>>, Value |-> 57349] }

\* shift targets: small ones, the ones around the 8- and 16-bit limits, and
\* 2^32 - 2 and 2^32 - 1
ShiftArgs == << I64(1), I64(125), I64(126), I64(32766), <<65535, 65534>>, <<65535, 65535>> >>

GenActs ==
    [i \in 1..Len(ShiftArgs) |-> [kind |-> "s", arg |-> ShiftArgs[i]]]
        \o << [kind |-> "r", arg |-> I64(1)], [kind |-> "r", arg |-> I64(2)],
              [kind |-> "a", arg |-> Zero64] >>

\* the number of (state, symbol, action) triples a generated table draws from
NumGenCells == GenStates * Len(GenNames) * Len(GenActs)

\* the i-th such triple
GenCell(i) ==
    LET a == GenActs[(i % Len(GenActs)) + 1]
        n == (i \div Len(GenActs)) % Len(GenNames)
    IN  [state |-> i \div (Len(GenActs) * Len(GenNames)), Sym |-> GenNames[n + 1],
         kind |-> a.kind, arg |-> a.arg]

\* f lists k distinct triples, in order, with one action per (state, symbol)
GenCellChoice(f, k) ==
    \A i \in 1..(k - 1) : f[i] \div Len(GenActs) < f[i + 1] \div Len(GenActs)

GenGrammar(C) ==
    [Syms |-> GenSyms,
     Table |-> [i \in 1..GenStates |->
                  { [Sym |-> c.Sym, kind |-> c.kind, arg |-> c.arg] : c \in { d \in C : d.state = i - 1 } }],
     Rules |-> << [Sym |-> nmAccept, Components |-> <<nmA, nmEnd>>, errok |-> FALSE],
                  [Sym |-> nmA, Components |-> << <<97>> >>, errok |-> FALSE],
                  [Sym |-> nmA, Components |-> <<>>, errok |-> FALSE] >>,
     XErrors |-> {}]

-----------------------------------------------------------------------------
(* The generator as a state machine *)

\* p, err := y.ProcessFile(...): the concrete grammar, or a generated table
GenInit ==
    /\ \/ p = G
       \/ \E k \in 0..MaxCells : \E f \in [1..k -> 0..(NumGenCells - 1)] :
             /\ GenCellChoice(f, k)
             /\ p = GenGrammar({ GenCell(f[i]) : i \in 1..k })
    /\ su = <<>>
    /\ out = NoOut
    /\ input = <<>>
    /\ parse = <<>>

\* sort.Sort(su)
GenSort ==
    /\ su = <<>>
    /\ ~out.emitted
    /\ \E s \in SortedSu(p) : su' = s
    /\ UNCHANGED <<p, out, input, parse>>

\* the rest of main1: every table is written from p and the sorted su
GenEmit ==
    /\ su # <<>>
    /\ ~out.emitted
    /\ out' = Emit(p, su)
    /\ UNCHANGED <<p, su, input, parse>>

GenNext == GenSort \/ GenEmit

SpecGen == GenInit /\ [][GenNext]_vars

-----------------------------------------------------------------------------
(* The action stitcher: the loop of main1 over p.Rules that writes the     *)
(* `case r:` bodies of the reduce switch.                                  *)
(*                                                                         *)
(* A rule here carries Type (rule.Sym.Type, "" when none is declared),     *)
(* Components, Action (a sequence of parts [Tok, Num, Tag]) and, when it   *)
(* is synthesized, Parent (the parent's Components) and MaxParentDlr.      *)
(* Component i of a rule is the symbol CompName(i), whose declared type is *)
(* CompType(i).  An emitted access is [text, off, field]: "rval" for       *)
(* rval.<field>, "stack" for stack[sp-<off>].<field>, "src" for literal    *)
(* text; the default action is [text |-> "copy", off, dst, field] for      *)
(* rval.<dst> = stack[sp-<off>].<field>.                                   *)
(***************************************************************************)

\* p.Syms[name].Type of the component symbols
CompType(i) == IF i % 2 = 1 THEN "num" ELSE "node"

\* rule.Components of a rule with k components: their types, in order
CompsOf(k) == [i \in 1..k |-> CompType(i)]

\* the switch over part.Tok; components[num-1] out of range is a run-time
\* panic of the generator
StitchPart(part, max, components, typ) ==
    CASE part.Tok = "DLR_DLR" -> [text |-> "rval", off |-> 0, field |-> typ]
      [] part.Tok = "DLR_NUM" ->
            IF part.Num - 1 \in 0..(Len(components) - 1)
            THEN [text |-> "stack", off |-> max - part.Num, field |-> components[part.Num]]
            ELSE [text |-> "panic", off |-> 0, field |-> ""]
      [] part.Tok = "DLR_TAG_DLR" -> [text |-> "rval", off |-> 0, field |-> part.Tag]
      [] part.Tok = "DLR_TAG_NUM" -> [text |-> "stack", off |-> part.Num, field |-> part.Tag]
      [] OTHER -> [text |-> "src", off |-> 0, field |-> ""]

\* max of the rule: len(components), or MaxParentDlr when it has a parent
RuleMax(rule) == IF IsSynth(rule) THEN rule.MaxParentDlr ELSE Len(rule.Components)

\* components of the rule: its own, or its parent's when it has a parent
RuleComponents(rule) == IF IsSynth(rule) THEN rule.Parent ELSE rule.Components

\* one iteration of `for r, rule := range p.Rules`: what is written for the
\* rule ("skip": nothing; "case": a case with this body; "panic": main1
\* stops with an index out of range)
StitchRule(rule) ==
    LET components == RuleComponents(rule)
        max == RuleMax(rule)
        body == [i \in 1..Len(rule.Action) |-> StitchPart(rule.Action[i], max, components, rule.Type)]
    IN  IF Len(rule.Action) = 0 /\ rule.Type = "" THEN [status |-> "skip", body |-> <<>>]
        ELSE IF Len(rule.Action) = 0 /\ ~IsSynth(rule)
        THEN IF Len(components) = 0 THEN [status |-> "panic", body |-> <<>>]
             ELSE [status |-> "case",
                   body |-> << [text |-> "copy", off |-> 0, dst |-> rule.Type, field |-> components[1]] >>]
        ELSE IF \E i \in 1..Len(body) : body[i].text = "panic" THEN [status |-> "panic", body |-> <<>>]
        ELSE [status |-> "case", body |-> body]

\* the parts an action over max positions may hold
StitchParts(max) ==
    { [Tok |-> "DLR_DLR", Num |-> 0, Tag |-> ""], [Tok |-> "DLR_TAG_DLR", Num |-> 0, Tag |-> "str"],
      [Tok |-> "TEXT", Num |-> 0, Tag |-> ""] }
        \cup { [Tok |-> "DLR_NUM", Num |-> n, Tag |-> ""] : n \in 1..max }
        \cup { [Tok |-> "DLR_TAG_NUM", Num |-> n, Tag |-> "str"] : n \in 1..max }

\* the rules handed to the stitcher: plain rules of 0..MaxComps components
\* and synthesized rules (no components of their own) under a parent of
\* 1..MaxComps components, MaxParentDlr of them before the action
StitchShapes ==
    { [Components |-> CompsOf(k)] : k \in 0..MaxComps }
        \cup UNION { { [Components |-> <<>>, Parent |-> CompsOf(k), MaxParentDlr |-> m] : m \in 0..k }
                      : k \in 1..MaxComps }

StitchActions(max) == UNION { [1..n -> StitchParts(max)] : n \in 0..MaxParts }

\* before the loop has written anything
NoCase == [emitted |-> FALSE, status |-> "", body |-> <<>>]

StitchInit ==
    /\ \E shape \in StitchShapes : \E typ \in {"", "node"} : \E action \in StitchActions(RuleMax(shape)) :
          p = [Rules |-> << [Type |-> typ, Action |-> action] @@ shape >>]
    /\ su = <<>>
    /\ out = NoCase
    /\ input = <<>>
    /\ parse = <<>>

\* the loop body for the rule
Stitch ==
    /\ ~out.emitted
    /\ out' = [emitted |-> TRUE] @@ StitchRule(p.Rules[1])
    /\ UNCHANGED <<p, su, input, parse>>

SpecStitch == StitchInit /\ [][Stitch]_vars

-----------------------------------------------------------------------------
(* The generated parser as a state machine: one action per branch of the   *)
(* pass through next:, for each running invocation pid                     *)

Init ==
    /\ p = G
    /\ su = yySu
    /\ out = yyTables
    /\ input \in [{1} -> TokenSeqs(MaxLen)]
    /\ parse = [pid \in {1} |-> InitC]

ParInit ==
    /\ p = G
    /\ su = yySu
    /\ out = yyTables
    /\ input \in [{1, 2} -> ParInputs]
    /\ parse = [pid \in {1, 2} |-> InitC]

\* a parse over the tables of any of the three grammars
TopInit ==
    /\ \/ p = G /\ su = yySu /\ out = yyTables
       \/ p = GTop /\ su = yySuTop /\ out = yyTablesTop
       \/ p = GMid /\ su = yySuMid /\ out = yyTablesMid
    /\ input \in [{1} -> TokenSeqs(MaxLen)]
    /\ parse = [pid \in {1} |-> InitC]

Lex(pid) ==
    /\ Op(out, parse[pid]) = "lex"
    /\ parse' = Commit(parse, pid, LexC(out, input[pid], parse[pid]))
    /\ UNCHANGED <<p, su, out, input>>

Panic(pid) ==
    /\ Op(out, parse[pid]) = "panic"
    /\ parse' = Commit(parse, pid, PanicC(parse[pid]))
    /\ UNCHANGED <<p, su, out, input>>

Shift(pid) ==
    /\ Op(out, parse[pid]) = "shift"
    /\ parse' = Commit(parse, pid, ShiftC(out, parse[pid]))
    /\ UNCHANGED <<p, su, out, input>>

Reduce(pid) ==
    /\ Op(out, parse[pid]) = "reduce"
    /\ parse' = Commit(parse, pid, ReduceC(out, parse[pid]))
    /\ UNCHANGED <<p, su, out, input>>

Accept(pid) ==
    /\ Op(out, parse[pid]) = "accept"
    /\ parse' = Commit(parse, pid, AcceptC(parse[pid]))
    /\ UNCHANGED <<p, su, out, input>>

Error0(pid) ==
    /\ Op(out, parse[pid]) = "error0"
    /\ parse' = Commit(parse, pid, ErrorC(out, parse[pid]))
    /\ UNCHANGED <<p, su, out, input>>

Error12(pid) ==
    /\ Op(out, parse[pid]) = "error12"
    /\ parse' = Commit(parse, pid, ErrorC(out, parse[pid]))
    /\ UNCHANGED <<p, su, out, input>>

Error3(pid) ==
    /\ Op(out, parse[pid]) = "error3"
    /\ parse' = Commit(parse, pid, DiscardC(out, parse[pid]))
    /\ UNCHANGED <<p, su, out, input>>

Next ==
    \/ \E pid \in DOMAIN parse : Lex(pid)
    \/ \E pid \in DOMAIN parse : Panic(pid)
    \/ \E pid \in DOMAIN parse : Shift(pid)
    \/ \E pid \in DOMAIN parse : Reduce(pid)
    \/ \E pid \in DOMAIN parse : Accept(pid)
    \/ \E pid \in DOMAIN parse : Error0(pid)
    \/ \E pid \in DOMAIN parse : Error12(pid)
    \/ \E pid \in DOMAIN parse : Error3(pid)

Spec == Init /\ [][Next]_vars

SpecTop == TopInit /\ [][Next]_vars

\* a running invocation is never suspended for ever: yyParse is sequential
\* code that runs to its return
FairSpec == Init /\ [][Next]_vars /\ WF_vars(Next)

SpecPar == ParInit /\ [][Next]_vars

-----------------------------------------------------------------------------
(* Properties *)

\* the symbols of g that are translated, with the four skipped names
\* written out
Translated(g) ==
    { s \in g.Syms : s.Name # <<>> /\ s.Name # <<206, 181>>
                       /\ s.Name # <<36, 97, 99, 99, 101, 112, 116>> /\ s.Name # <<35>> }

\* how many action cells of g name the symbol nm, whatever their kind
UsageCount(g, nm) == Cardinality({ c \in Cells(g) : c.act.Sym = nm })

\* the value the table of g holds for state si and symbol nm: the target of
\* a shift or goto, minus the rule of a reduce, 0 for accept and for no action
RawValue(g, si, nm) ==
    IF \E a \in g.Table[si + 1] : a.Sym = nm
    THEN LET a == CHOOSE b \in g.Table[si + 1] : b.Sym = nm
         IN  IF a.kind = "r" THEN Neg64(a.arg) ELSE IF a.kind = "a" THEN Zero64 ELSE a.arg
    ELSE Zero64

\* v is in the range of an unsigned integer of the given width
FitsUnsigned(v, bits) ==
    /\ v[1] >= 0
    /\ bits = 8 => v[1] = 0 /\ v[2] < 256
    /\ bits = 16 => v[1] = 0
    /\ bits = 32 => v[1] < Base

ErrorCalls(c) == { i \in 1..Len(c.calls) : c.calls[i].call = "Error" }

\* C1: every parse eventually returns 0 or 1; no sequence of reduce, error
\* unwind, error shift and token discard steps goes on for ever.
C1_Terminates == <>(\A pid \in DOMAIN parse : parse[pid].pc = "return" /\ parse[pid].ret \in {0, 1})

\* C2: for every state and every translated id, the normal step's lookup in
\* the emitted row gives back the value the table holds for that state and
\* symbol, and 0 where the table holds no action.
C2_RoundTrip ==
    out.emitted =>
        \A si \in 0..(NumStates(p) - 1) : \A id \in 0..(Len(su) - 1) :
            DecodeCell(out.parseTab[si + 1], id, out.tabOfs) = RawValue(p, si, su[id + 1])

\* C3: every stored cell value (raw value minus yyTabOfs) of an emitted table
\* fits the selected unsigned width; a table with a value that does not fit
\* is not emitted.
C3_WidthSafe ==
    out.emitted =>
        \A c \in Cells(p) : FitsUnsigned(Sub64(RawValue(p, c.state, c.act.Sym), out.tabOfs), out.tbits)

\* C4: the translated symbols (all but "", "ε", "$accept", "#") get exactly
\* one id each in [0, N), N their number, no id twice, and the emitted
\* translation table maps each symbol's value to its own id.
C4_Bijection ==
    su # <<>> =>
        /\ Len(su) = Cardinality(Translated(p))
        /\ \A s \in Translated(p) : Cardinality({ i \in 1..Len(su) : su[i] = s.Name }) = 1
        /\ out.emitted =>
              \A s \in Translated(p) :
                  /\ s.Value \in DOMAIN out.xlat
                  /\ out.xlat[s.Value] \in 0..(Cardinality(Translated(p)) - 1)
                  /\ su[out.xlat[s.Value] + 1] = s.Name

\* C4 witness: the tables of a grammar with a used symbol have been emitted
C4_Witness ==
    /\ out.emitted
    /\ Len(su) = 4
    /\ \E c \in Cells(p) : c.act.kind = "s" /\ out.xlat[Sym(p, c.act.Sym).Value] = 0

\* C5: the same symbols, names and usage counts always get the same ids: the
\* sort's comparison leaves no two distinct symbols tied.
C5_Deterministic ==
    su # <<>> =>
        /\ \A s \in SortedSu(p) : s = su
        /\ \A a, b \in MsuKeys(p) : a # b => Less(Msu(p), a, b) \/ Less(Msu(p), b, a)

\* C6: ids go by descending usage count, then ascending lower-cased name,
\* the usage count being the number of cells naming the symbol whatever
\* their kind; an unused symbol has an id in [0, N) above the id of every
\* used symbol.
C6_UsageOrder ==
    su # <<>> =>
        /\ \A i, j \in 1..Len(su) :
              i < j =>
                  \/ UsageCount(p, su[i]) > UsageCount(p, su[j])
                  \/ /\ UsageCount(p, su[i]) = UsageCount(p, su[j])
                     /\ ~StrLess(ToLower(su[j]), ToLower(su[i]))
        /\ \A i, j \in 1..Len(su) :
              UsageCount(p, su[i]) = 0 /\ UsageCount(p, su[j]) > 0 => j < i
        /\ out.emitted =>
              \A s \in Translated(p) :
                  UsageCount(p, s.Name) = 0 => out.xlat[s.Value] \in 0..(Len(su) - 1)

\* C6 witness: a sorted list headed by a symbol named by an accept cell and
\* by a reduce cell (count 2), with an unused symbol behind it
C6_Witness ==
    /\ out.emitted
    /\ \E c, d \in Cells(p) : /\ c.act.kind = "a" /\ d.act.kind = "r" /\ c.act.Sym = d.act.Sym
                              /\ UsageCount(p, c.act.Sym) = 2 /\ su[1] = c.act.Sym
    /\ \E i \in 1..Len(su) : UsageCount(p, su[i]) = 0

\* C7: yylex.Error is called exactly when an error is detected with the
\* counter at 0, with the stack and lookahead the error was detected on, and
\* never with the counter at 1, 2 or 3; before a call, either no error was
\* detected yet, or three tokens were shifted or yyerrok() was called since
\* the last one.
C7_ErrorSinkOnce ==
    [][\A pid \in DOMAIN parse :
          LET c == parse[pid]
              d == parse'[pid]
              detects == /\ c.pc = "next" /\ c.lookahead >= 0 /\ ValidState(out, TopState(c))
                         /\ Arg(out, c) = 0 /\ TopState(c) # 1
          IN  d # c =>
                /\ d.msg # NoMsg =>
                      /\ c.errState = 0
                      /\ detects
                      /\ ~c.detected \/ c.shifts = 3 \/ c.errok
                      /\ Len(c.calls) < MaxCalls =>
                            d.calls = Append(c.calls, [call |-> "Error", n |-> TopState(c),
                                                       xsym |-> c.lookahead, msg |-> d.msg])
                /\ detects /\ c.errState = 0 => d.msg # NoMsg
                /\ c.errState \in {1, 2, 3} => d.msg = NoMsg /\ ErrorCalls(d) = ErrorCalls(c)
      ]_vars

\* C7 witness: a second call of yylex.Error in one parse
C7_Witness ==
    \E pid \in DOMAIN parse :
        /\ parse[pid].op = "error"
        /\ parse[pid].msg # NoMsg
        /\ Cardinality(ErrorCalls(parse[pid])) = 2

\* C8: a token id that is not positive, or positive with no entry in yyXLAT,
\* is translated to yyEOF.
C8_UnknownIsEOF ==
    \A pid \in DOMAIN parse :
        \A i \in 1..Len(parse[pid].calls) :
            LET call == parse[pid].calls[i]
            IN  call.call = "Lex" /\ (call.n <= 0 \/ call.n \notin DOMAIN out.xlat)
                    => call.xsym = out.endSym

\* C9: the message handed to yylex.Error in state s on lookahead t is the
\* example for (s, t) if there is one, else the example for s without a
\* lookahead if there is one, else "syntax error".
C9_MessagePriority ==
    \A pid \in DOMAIN parse :
        \A i \in ErrorCalls(parse[pid]) :
            LET call == parse[pid].calls[i]
                exact == { x \in p.XErrors :
                             /\ x.Stack[Len(x.Stack)] = call.n
                             /\ x.Lookahead # NoLookahead
                             /\ \E k \in 1..Len(su) : su[k] = x.Lookahead /\ k - 1 = call.xsym }
                wild == { x \in p.XErrors : x.Stack[Len(x.Stack)] = call.n /\ x.Lookahead = NoLookahead }
            IN  /\ exact # {} => \E x \in exact : call.msg = x.Msg
                /\ exact = {} /\ wild # {} => \E x \in wild : call.msg = x.Msg
                /\ exact = {} /\ wild = {} => call.msg = "syntax error"

\* C9 witness: an error reported in state 2 on 'y', which has both an exact
\* and a wildcard example
C9_Witness ==
    \E pid \in DOMAIN parse :
        \E i \in ErrorCalls(parse[pid]) :
            /\ parse[pid].calls[i].n = 2
            /\ parse[pid].calls[i].xsym = 1
            /\ parse[pid].calls[i].msg = "unexpected y after a"

\* C10: a parse never writes the emitted tables, and interleaved with another
\* parse it only passes through the configurations (stack, lookahead,
\* counter, calls made, result) it passes through when run alone.
C10_Reentrant ==
    /\ out = yyTables
    /\ \A pid \in DOMAIN parse : parse[pid] \in SoloRun(yyTables, input[pid], InitC, {})

\* C10 witness: two interleaved parses of different inputs, one accepted
\* and one failed after an error report
C10_Witness ==
    /\ DOMAIN parse = {1, 2}
    /\ parse[1].pc = "return" /\ parse[1].ret = 0
    /\ parse[2].pc = "return" /\ parse[2].ret = 1 /\ ErrorCalls(parse[2]) # {}

\* C11: the selected width is the smallest of 8, 16 and 32 bits that holds
\* every stored cell value: 8 when they all fit 8 bits, 16 when they all fit
\* 16 bits and one does not fit 8.
C11_SmallestWidth ==
    out.emitted =>
        LET stored == { Sub64(RawValue(p, c.state, c.act.Sym), out.tabOfs) : c \in Cells(p) }
        IN  /\ (\A v \in stored : FitsUnsigned(v, 8)) => out.tbits = 8
            /\ (\A v \in stored : FitsUnsigned(v, 16)) /\ (\E v \in stored : ~FitsUnsigned(v, 8))
                  => out.tbits = 16

\* C12: the unwind shifts the error symbol only from a state whose row holds
\* a non-empty (stored non-zero) cell for it, and the pushed state is that
\* cell's target; a state with an absent or empty error cell is no recovery
\* target.
C12_ErrorShiftNeedsCell ==
    \A pid \in DOMAIN parse :
        LET c == parse[pid]
        IN  c.op = "error" /\ c.pc = "next" =>
                LET from == c.stack[Len(c.stack) - 1]
                    row == out.parseTab[from + 1]
                IN  /\ out.errSym < Len(row)
                    /\ row[out.errSym + 1] # Zero64
                    /\ TopState(c) = ToInt(Add64(row[out.errSym + 1], out.tabOfs))

\* state s has an error-shift action in the table of g
HasErrorShift(g, s) ==
    s >= 0 /\ s < NumStates(g) /\ \E a \in g.Table[s + 1] : a.Sym = nmError /\ a.kind = "s"

\* C13: the unwind inspects every frame, the bottom one included: it resumes
\* at the topmost frame whose state has an error shift (pushing its target,
\* counter 3, lookahead kept) and returns 1 only if no frame has one.
C13_UnwindToBottom ==
    [][\A pid \in DOMAIN parse :
          LET c == parse[pid]
              d == parse'[pid]
              frames == { i \in 1..Len(c.stack) : HasErrorShift(p, c.stack[i]) }
          IN  d # c /\ d.op = "error" =>
                /\ frames = {} => d.pc = "return" /\ d.ret = 1
                /\ frames # {} =>
                      LET k == CHOOSE i \in frames : \A j \in frames : j <= i
                          a == CHOOSE a \in p.Table[c.stack[k] + 1] : a.Sym = nmError /\ a.kind = "s"
                      IN  /\ d.pc = "next"
                          /\ d.stack = Append(SubSeq(c.stack, 1, k), ToInt(a.arg))
                          /\ d.errState = 3
                          /\ d.lookahead = c.lookahead
      ]_vars

\* C14: a parse never faults: every state number held in a stack frame is a
\* row index of yyParseTab, and no pass through next: ends in a run-time
\* panic (a row access out of bounds, a reduction short of frames).
C14_NeverFaults ==
    \A pid \in DOMAIN parse :
        /\ parse[pid].pc # "panic"
        /\ \A i \in 1..Len(parse[pid].stack) : ValidState(out, parse[pid].stack[i])

\* C15 as stated: the catalog's pop count is the component count, but the
\* parent's MaxParentDlr for a synthesized rule, and a reduce pops that many
\* frames.
C15_PopCountParent ==
    [][\A pid \in DOMAIN parse :
          LET c == parse[pid]
              d == parse'[pid]
              r == -Arg(out, c)
              claimed(i) == IF IsSynth(p.Rules[i + 1]) THEN p.Rules[i + 1].MaxParentDlr
                            ELSE Len(p.Rules[i + 1].Components)
          IN  /\ \A i \in 0..(Len(p.Rules) - 1) : out.reductions[i + 1].components = claimed(i)
              /\ d # c /\ d.op = "reduce" => Len(d.stack) = Len(c.stack) - claimed(r) + 1
      ]_vars

\* C15 amended: the catalog's pop count of every rule, synthesized or not, is
\* the rule's own component count, and a reduce pops exactly that many frames.
C15_PopCountComponents ==
    [][\A pid \in DOMAIN parse :
          LET c == parse[pid]
              d == parse'[pid]
              r == -Arg(out, c)
          IN  /\ \A i \in 0..(Len(p.Rules) - 1) :
                    out.reductions[i + 1].components = Len(p.Rules[i + 1].Components)
              /\ d # c /\ d.op = "reduce" =>
                    /\ Len(d.stack) = Len(c.stack) - Len(p.Rules[r + 1].Components) + 1
                    /\ SubSeq(d.stack, 1, Len(d.stack) - 1)
                          = SubSeq(c.stack, 1, Len(c.stack) - Len(p.Rules[r + 1].Components))
      ]_vars

\* C15 witness: the synthesized rule 2 of GMid has just been reduced, with
\* the frame of 'a' still on the stack
C15_Witness ==
    /\ p = GMid
    /\ parse[1].op = "reduce"
    /\ parse[1].stack = <<0, 2, 3>>

\* C16: in a written case, positional reference N, untagged ($N) or tagged
\* ($<tag>N), becomes the stack slot max - N below the top, max being the
\* rule's component count, or MaxParentDlr for a synthesized rule; so both
\* forms of the same N address the same frame.
C16_PositionalOffset ==
    out.emitted /\ out.status = "case" =>
        LET rule == p.Rules[1]
            max == IF "Parent" \in DOMAIN rule THEN rule.MaxParentDlr ELSE Len(rule.Components)
        IN  \A i \in 1..Len(rule.Action) :
                rule.Action[i].Tok \in {"DLR_NUM", "DLR_TAG_NUM"} =>
                    /\ out.body[i].text = "stack"
                    /\ out.body[i].off = max - rule.Action[i].Num

\* C17: the copy-through action is written only for a rule that is not
\* synthesized, has an empty action, a declared type and one component, and
\* it copies the frame of component 1; an empty action with no declared
\* type gets no case; and the generator never stops on an empty action.
C17_DefaultAction ==
    out.emitted =>
        LET rule == p.Rules[1]
            copies == out.status = "case" /\ Len(out.body) = 1 /\ out.body[1].text = "copy"
        IN  /\ copies =>
                  /\ "Parent" \notin DOMAIN rule
                  /\ Len(rule.Action) = 0
                  /\ rule.Type # ""
                  /\ Len(rule.Components) = 1
                  /\ out.body[1].off = Len(rule.Components) - 1
                  /\ out.body[1].dst = rule.Type
            /\ Len(rule.Action) = 0 /\ rule.Type = "" => out.status = "skip"
            /\ Len(rule.Action) = 0 => out.status # "panic"

\* C18: an error detected with the counter at 3 returns 1 when the lookahead
\* is yyEOF and otherwise drops just the lookahead, stack and counter kept;
\* a token shift takes one off a positive counter, the error shift sets it
\* to 3; the counter comes back to 0 only by the third token shift since
\* the last error or by yyerrok().
C18_DiscardAndCounter ==
    [][\A pid \in DOMAIN parse :
          LET c == parse[pid]
              d == parse'[pid]
              detects == /\ c.pc = "next" /\ c.lookahead >= 0 /\ ValidState(out, TopState(c))
                         /\ Arg(out, c) = 0 /\ TopState(c) # 1
              r == -Arg(out, c)
          IN  d # c =>
                /\ detects /\ c.errState = 3 /\ c.lookahead = out.endSym =>
                      d.pc = "return" /\ d.ret = 1
                /\ detects /\ c.errState = 3 /\ c.lookahead # out.endSym =>
                      /\ d.pc = "next" /\ d.lookahead = -1
                      /\ d.stack = c.stack /\ d.errState = 3 /\ d.pos = c.pos
                /\ d.op = "shift" =>
                      d.errState = IF c.errState > 0 THEN c.errState - 1 ELSE 0
                /\ d.op = "error" /\ d.pc = "next" => d.errState = 3
                /\ c.errState > 0 /\ d.errState = 0 =>
                      \/ d.op = "shift" /\ c.errState = 1 /\ d.shifts = 3
                      \/ d.op = "reduce" /\ p.Rules[r + 1].errok
      ]_vars

\* C18 witness: a token other than end of input has just been discarded
\* with the counter at 3
C18_Witness ==
    \E pid \in DOMAIN parse :
        /\ parse[pid].op = "discard"
        /\ parse[pid].pc = "next"
        /\ parse[pid].lookahead = -1
        /\ parse[pid].errState = 3

\* C19 as stated: a reduce by rule r with pop count n puts one frame in the
\* place of the top n frames, its state the goto of the exposed state on the
\* rule's result symbol; the frames below, the lookahead and the counter
\* are unchanged.
C19_ReduceFrame ==
    [][\A pid \in DOMAIN parse :
          LET c == parse[pid]
              d == parse'[pid]
              r == -Arg(out, c)
              n == out.reductions[r + 1].components
              exposed == c.stack[Len(c.stack) - n]
          IN  d # c /\ d.op = "reduce" =>
                /\ Len(d.stack) = Len(c.stack) + 1 - n
                /\ SubSeq(d.stack, 1, Len(d.stack) - 1) = SubSeq(c.stack, 1, Len(c.stack) - n)
                /\ \E a \in p.Table[exposed + 1] :
                      a.kind = "g" /\ a.Sym = p.Rules[r + 1].Sym /\ TopState(d) = ToInt(a.arg)
                /\ d.lookahead = c.lookahead
                /\ d.errState = c.errState
      ]_vars

\* C19 amended: the same, but the counter is unchanged only when the rule's
\* action does not call yyerrok(); when it does, the counter is 0 after
\* the reduce.
C19_ReduceFrameErrok ==
    [][\A pid \in DOMAIN parse :
          LET c == parse[pid]
              d == parse'[pid]
              r == -Arg(out, c)
              n == out.reductions[r + 1].components
              exposed == c.stack[Len(c.stack) - n]
          IN  d # c /\ d.op = "reduce" =>
                /\ Len(d.stack) = Len(c.stack) + 1 - n
                /\ SubSeq(d.stack, 1, Len(d.stack) - 1) = SubSeq(c.stack, 1, Len(c.stack) - n)
                /\ \E a \in p.Table[exposed + 1] :
                      a.kind = "g" /\ a.Sym = p.Rules[r + 1].Sym /\ TopState(d) = ToInt(a.arg)
                /\ d.lookahead = c.lookahead
                /\ d.errState = IF p.Rules[r + 1].errok THEN 0 ELSE c.errState
      ]_vars

\* C19 witness: rule 1 of G (three components) has been reduced on top of
\* the bottom frame, the counter being 0 since the action of rule 3 called
\* yyerrok()
C19_Witness ==
    /\ p = G
    /\ parse[1].op = "reduce"
    /\ parse[1].stack = <<0, 1>>
    /\ parse[1].errok

\* C20: yyParse returns 0 only with state 1 on top of the stack and the
\* end-of-input symbol as pending lookahead; another lookahead without an
\* action in state 1 is a syntax error.
C20_AcceptOnlyAtEOF ==
    \A pid \in DOMAIN parse :
        parse[pid].pc = "return" /\ parse[pid].ret = 0 =>
            /\ TopState(parse[pid]) = 1
            /\ parse[pid].lookahead = out.endSym

====
